---- MODULE Spec2Model ----
(***************************************************************************)
(* DynamoDBConnectionManager                                               *)
(* (packages/aws-lambda-graphql/src/DynamoDBConnectionManager.ts)          *)
(*                                                                         *)
(* The manager's methods are async functions: each runs atomically up to   *)
(* its next await, so every action below is one such stretch of one call.  *)
(* A call occupies a slot of Procs from its invocation until its promise   *)
(* has settled and the requests it started have been answered.             *)
(***************************************************************************)
EXTENDS Integers, Sequences, FiniteSets, TLC

\* ------------------------------------------------------------- bounds
\* calls made on the manager in one behaviour
MaxCalls == 3
\* largest retryCount passed to hydrateConnection
MaxRetry == 2
\* calls made in a behaviour of two overlapping invocations
MaxRaceCalls == 2
\* unregisterConnection calls made in a behaviour of retried removals
MaxUnregisters == 3
\* ---------------------------------------------------------- constants
DEFAULT_TTL == 7200
GONE_STATUS == 410
\* line 123: the delay of a wait when options give none, in milliseconds
DEFAULT_TIMEOUT == 50

Procs == {1, 2}
Ids == {"c1", "c2"}

\* An endpoint is the sequence of its parts: an optional scheme, then the host.
Endpoints == {<<"h1">>, <<"wss://", "h2">>}

\* IConnectionData values the upstream handshake passes to setConnectionData
DataVals ==
  {[endpoint |-> <<"h1">>, context |-> {<<"user", "u1">>}, isInitialized |-> TRUE]}

\* fields a connect event may carry besides connectionId and endpoint
EventExtras == {{}, {<<"isInitialized", TRUE>>, <<"context", "x">>}}
ConnectEvents == [connectionId : Ids, endpoint : Endpoints, extra : EventExtras]

\* the instants the clock shows: the start, a default ttl later, a second after that
Instants == {0, DEFAULT_TTL, DEFAULT_TTL + 1}

\* ------------------------------------------------------------- errors
NoError == [name |-> "none"]
ConnectionNotFoundError == [name |-> "ConnectionNotFoundError"]
StorageError == [name |-> "StorageError"]
SubscriptionError == [name |-> "SubscriptionError"]
ReferenceError == [name |-> "ReferenceError"]
GoneError == [name |-> "GoneException", statusCode |-> GONE_STATUS]
TransportErrors ==
  {GoneError, [name |-> "InternalError", statusCode |-> 500], [name |-> "NetworkError"]}

\* ------------------------------------------------------------ clients
NoClient == [kind |-> "undefined"]
OverrideClient == [kind |-> "override"]

VARIABLES
  store,              \* the connections table: id -> item, for the ids that have one
  subs,               \* ids that own subscriptions in the subscription manager
  apiGatewayManager,  \* this.apiGatewayManager
  ttl,                \* this.ttl: {seconds}, or {} for false (turned off)
  endpoint1Bound,     \* whether the identifier endpoint1 of line 264 resolves at run time
  now,                \* Date.now(), in seconds
  calls,              \* the calls in flight, one per slot
  slots,              \* how many calls the callers keep in flight at once
  started,            \* calls made so far
  removed             \* ids whose unregisterConnection succeeded, no call on them since

vars == <<store, subs, apiGatewayManager, ttl, endpoint1Bound, now, calls, slots, started, removed>>

\* ------------------------------------------------------------ helpers
Count(log, e) == Cardinality({k \in DOMAIN log : log[k] = e})

Idle ==
  [op |-> "none", pc |-> "idle", id |-> "none", endpoint |-> <<>>, data |-> {},
   retryCount |-> 0, i |-> 0, del |-> "none", unsub |-> "none", via |-> NoClient,
   item |-> {}, answer |-> NoError, log |-> <<>>, result |-> "pending",
   value |-> {}, error |-> NoError]

Fulfilled(c, v) == [c EXCEPT !.pc = "done", !.result = "ok", !.value = v]
Rejected(c, e) == [c EXCEPT !.pc = "done", !.result = "error", !.error = e]
Logged(c, e) == [c EXCEPT !.log = Append(@, e)]

\* ------------------------------------------------------------ storage
\* GetCommand
GetItem(table, id) == IF id \in DOMAIN table THEN {table[id]} ELSE {}

\* variant: the put written as an update that keeps the attributes the key has
PutItemKeepingOld(table, item) ==
  [k \in DOMAIN table \cup {item.id} |->
     IF k # item.id THEN table[k]
     ELSE IF k \in DOMAIN table
          THEN [a \in DOMAIN table[k] \cup DOMAIN item |->
                  IF a \in DOMAIN table[k] THEN table[k][a] ELSE item[a]]
          ELSE item]

\* PutCommand: the item replaces whatever the key held
PutItem(table, item) ==
  [k \in DOMAIN table \cup {item.id} |-> IF k = item.id THEN item ELSE table[k]]

\* DeleteCommand
DeleteItem(table, id) == [k \in DOMAIN table \ {id} |-> table[k]]

\* variant: the update written as a put of {id, data}
UpdateItemAsPut(table, id, data) ==
  [k \in DOMAIN table \cup {id} |-> IF k # id THEN table[k] ELSE [id |-> id, data |-> data]]

\* UpdateCommand "set #data = :data" with no condition: the attribute is set on the
\* item of that key, and an item holding only the key and data is created when
\* the key has none
UpdateItem(table, id, data) ==
  [k \in DOMAIN table \cup {id} |->
     IF k # id THEN table[k]
     ELSE IF id \in DOMAIN table THEN [table[id] EXCEPT !.data = data]
     ELSE [id |-> id, data |-> data]]

\* ---------------------------------------------------------------- ttl
\* helpers/computeTTL: the absolute expiry instant
computeTTL(seconds, t) == t + seconds

\* helpers/isTTLExpired, applied to an item: never without a ttl, else once the
\* instant is strictly in the past
isTTLExpired(item, t) == "ttl" \in DOMAIN item /\ item.ttl < t

\* ------------------------------------------------------ the call slots
\* a slot is free once the call made in it has settled and its requests are answered
Settled(p) ==
  /\ calls[p].pc \in {"idle", "done"}
  /\ calls[p].del # "inflight" /\ calls[p].unsub # "inflight"

\* a call takes the first free slot, whose last call's outcome it replaces
Free(p) ==
  /\ p <= slots /\ Settled(p) /\ started < MaxCalls
  /\ \A q \in Procs : Settled(q) => ~(q < p)

\* another call on the id has been made and has not settled
Busy(p, id) ==
  \E q \in Procs \ {p} : calls[q].id = id /\ calls[q].pc \notin {"idle", "done"}

Begin(p, c) ==
  /\ calls' = [calls EXCEPT ![p] = c]
  /\ started' = started + 1
  /\ removed' = IF c.op = "register" THEN removed \ {c.id} ELSE removed

\* ---------------------------------------------------- hydrateConnection
\* variant: the loop test written i < retryCount
LoopContinuesExclusive(i, retryCount) == i < retryCount

\* the loop test of line 127
LoopContinues(i, retryCount) == i <= retryCount

\* variant: line 147 without the isTTLExpired test
HydrateOutcomeIgnoringTTL(c, connection, t) ==
  IF connection = {} THEN Rejected(c, ConnectionNotFoundError) ELSE Fulfilled(c, connection)

\* lines 147-151, connection being the item found ({} when none was)
HydrateOutcome(c, connection, t) ==
  IF connection = {} \/ (\E item \in connection : isTTLExpired(item, t))
  THEN Rejected(c, ConnectionNotFoundError)
  ELSE Fulfilled(c, connection)

\* the loop from its test on, with no item found so far
HydrateLoop(c, t) ==
  IF LoopContinues(c.i, c.retryCount) THEN [c EXCEPT !.pc = "get"]
  ELSE HydrateOutcome(c, {}, t)

HydrateCall(p, id, retryCount) ==
  /\ Free(p)
  /\ Begin(p, HydrateLoop([Idle EXCEPT !.op = "hydrate", !.id = id,
                                       !.retryCount = retryCount], now))
  /\ UNCHANGED <<store, subs, apiGatewayManager, ttl, slots, endpoint1Bound, now>>

\* variant: a failed read caught in the loop and taken as a read that found nothing
GetFailureAbsorbed(c, e) == [c EXCEPT !.pc = "wait"]

\* lines 128-135: the awaited send is in no try block, its rejection ends the call
GetFailure(c, e) == Rejected(c, e)

\* variant: a read that finds an expired item deletes it
GetReturnsSweeping(p) ==
  LET c == calls[p]
      result == GetItem(store, c.id) IN
  /\ c.op = "hydrate" /\ c.pc = "get"
  /\ \/ /\ result # {}
        /\ calls' = [calls EXCEPT ![p] = HydrateOutcome(Logged(c, "get:item"), result, now)]
        /\ store' = IF \E item \in result : isTTLExpired(item, now)
                    THEN DeleteItem(store, c.id) ELSE store
     \/ /\ result = {}
        /\ calls' = [calls EXCEPT ![p] = [Logged(c, "get:absent") EXCEPT !.pc = "wait"]]
        /\ store' = store
     \/ /\ calls' = [calls EXCEPT ![p] = GetFailure(Logged(c, "get:error"), StorageError)]
        /\ store' = store
  /\ UNCHANGED <<subs, apiGatewayManager, ttl, slots, endpoint1Bound, now, started, removed>>

\* the GetCommand of lines 128-135 is answered
GetReturns(p) ==
  LET c == calls[p]
      result == GetItem(store, c.id) IN
  /\ c.op = "hydrate" /\ c.pc = "get"
  /\ \/ /\ result # {}
        /\ calls' = [calls EXCEPT ![p] = HydrateOutcome(Logged(c, "get:item"), result, now)]
     \/ /\ result = {}
        /\ calls' = [calls EXCEPT ![p] = [Logged(c, "get:absent") EXCEPT !.pc = "wait"]]
     \/ calls' = [calls EXCEPT ![p] = GetFailure(Logged(c, "get:error"), StorageError)]
  /\ UNCHANGED <<store, subs, apiGatewayManager, ttl, slots, endpoint1Bound, now, started, removed>>

\* the timer of line 144 fires, then i++ and the loop test
WaitElapses(p) ==
  LET c == calls[p] IN
  /\ c.op = "hydrate" /\ c.pc = "wait"
  /\ calls' = [calls EXCEPT ![p] = HydrateLoop([Logged(c, "wait") EXCEPT !.i = @ + 1], now)]
  /\ UNCHANGED <<store, subs, apiGatewayManager, ttl, slots, endpoint1Bound, now, started, removed>>

\* ---------------------------------------------------- setConnectionData
SetConnectionDataCall(p, data, id) ==
  /\ Free(p)
  /\ Begin(p, [Idle EXCEPT !.op = "setData", !.pc = "update", !.id = id, !.data = {data}])
  /\ UNCHANGED <<store, subs, apiGatewayManager, ttl, slots, endpoint1Bound, now>>

\* the UpdateCommand of lines 155-169 is answered
UpdateReturns(p) ==
  LET c == calls[p] IN
  /\ c.op = "setData" /\ c.pc = "update"
  /\ \/ /\ \E data \in c.data : store' = UpdateItem(store, c.id, data)
        /\ calls' = [calls EXCEPT ![p] = Fulfilled(Logged(c, "update"), {})]
     \/ /\ store' = store
        /\ calls' = [calls EXCEPT ![p] = Rejected(Logged(c, "update:error"), StorageError)]
  /\ UNCHANGED <<subs, apiGatewayManager, ttl, slots, endpoint1Bound, now, started, removed>>

\* --------------------------------------------------- registerConnection
\* variant: the event spread into data after the defaults
NewConnectionSpreadingEvent(event) ==
  [id |-> event.connectionId,
   data |-> [endpoint |-> event.endpoint, context |-> {},
             isInitialized |-> <<"isInitialized", TRUE>> \in event.extra]]

\* lines 176-179
NewConnection(event) ==
  [id |-> event.connectionId,
   data |-> [endpoint |-> event.endpoint, context |-> {}, isInitialized |-> FALSE]]

\* the Item of lines 186-195
ConnectionItem(connection, ttlOption, t) ==
  IF ttlOption = {}
  THEN [createdAt |-> t, id |-> connection.id, data |-> connection.data]
  ELSE [createdAt |-> t, id |-> connection.id, data |-> connection.data,
        ttl |-> computeTTL(CHOOSE seconds \in ttlOption : TRUE, t)]

RegisterConnectionCall(p, event) ==
  /\ Free(p)
  /\ Begin(p, [Idle EXCEPT !.op = "register", !.pc = "put", !.id = event.connectionId,
                           !.endpoint = event.endpoint,
                           !.item = {ConnectionItem(NewConnection(event), ttl, now)}])
  /\ UNCHANGED <<store, subs, apiGatewayManager, ttl, slots, endpoint1Bound, now>>

\* line 198: the connection built at lines 176-179, whose id and data the Item shares
ReturnedConnection(item) == [id |-> item.id, data |-> item.data]

\* the answered put in the call's log, with whether the key already held an item
PutLogged(c, table) ==
  IF c.id \in DOMAIN table THEN [c EXCEPT !.log = @ \o <<"put", "replaced">>]
  ELSE Logged(c, "put")

\* the PutCommand of lines 183-197 is answered; line 198 returns connection
PutReturns(p) ==
  LET c == calls[p] IN
  /\ c.op = "register" /\ c.pc = "put"
  /\ \/ \E item \in c.item :
          /\ store' = PutItem(store, item)
          /\ calls' = [calls EXCEPT ![p] =
                         Fulfilled(PutLogged(c, store), {ReturnedConnection(item)})]
     \/ /\ store' = store
        /\ calls' = [calls EXCEPT ![p] = Rejected(Logged(c, "put:error"), StorageError)]
  /\ UNCHANGED <<subs, apiGatewayManager, ttl, slots, endpoint1Bound, now, started, removed>>

\* ---------------------------------------------- createApiGatewayManager
\* the test of line 260
HasWsScheme(endpoint) ==
  Len(endpoint) > 0 /\ endpoint[1] \in {"ws://", "wss://", "WS://", "WSS://"}

\* lines 260-262
NormalizeEndpoint(endpoint) ==
  IF HasWsScheme(endpoint) THEN endpoint ELSE <<"wss://">> \o endpoint

\* variant: lines 254-256 left out, a client made for the endpoint on every call
createApiGatewayManagerUncached(cached, endpoint, bound) ==
  IF ~bound
  THEN [client |-> NoClient, cache |-> cached, thrown |-> ReferenceError, created |-> FALSE]
  ELSE LET client == [kind |-> "created", endpoint |-> NormalizeEndpoint(endpoint)] IN
       [client |-> client, cache |-> client, thrown |-> NoError, created |-> TRUE]

\* lines 253-269: the client returned, this.apiGatewayManager afterwards, and what
\* was thrown. Line 264 reads endpoint1, which nothing in the module declares: the
\* read throws a ReferenceError unless the run-time environment binds the name.
createApiGatewayManager(cached, endpoint, bound) ==
  IF cached # NoClient
  THEN [client |-> cached, cache |-> cached, thrown |-> NoError, created |-> FALSE]
  ELSE IF ~bound
  THEN [client |-> NoClient, cache |-> cached, thrown |-> ReferenceError, created |-> FALSE]
  ELSE LET client == [kind |-> "created", endpoint |-> NormalizeEndpoint(endpoint)] IN
       [client |-> client, cache |-> client, thrown |-> NoError, created |-> TRUE]

\* --------------------------------------------------- unregisterConnection
\* variant: the delete awaited first, the unsubscribe left to follow its success
IssueUnregisterDeleteFirst(c) ==
  [c EXCEPT !.pc = "join", !.del = "inflight", !.log = @ \o <<"delete">>]

\* lines 225-233: both requests are made before the first await
IssueUnregister(c) ==
  [c EXCEPT !.pc = "join", !.del = "inflight", !.unsub = "inflight",
            !.log = @ \o <<"delete", "unsub">>]

\* Promise.all of line 224 over the two requests' states: it rejects with the first
\* rejection and fulfils once both have fulfilled
JoinRejected(del, unsub) == del = "error" \/ unsub = "error"

\* variant: Promise.race in place of Promise.all
JoinFulfilledByEither(del, unsub) == del = "ok" \/ unsub = "ok"

JoinFulfilled(del, unsub) == del = "ok" /\ unsub = "ok"

\* a call after one of its two requests was answered; its promise settles at most once
Join(c, e) ==
  IF c.pc # "join" THEN c
  ELSE IF JoinRejected(c.del, c.unsub) THEN Rejected(c, e)
  ELSE IF JoinFulfilled(c.del, c.unsub) THEN Fulfilled(c, {})
  ELSE c

\* the id is Removed once an unregister has succeeded with no other call on it pending
Removal(p, c) ==
  IF c.pc = "done" /\ c.result = "ok" /\ calls[p].pc = "join" /\ ~Busy(p, c.id)
  THEN removed \cup {c.id} ELSE removed

UnregisterConnectionCall(p, id) ==
  /\ Free(p)
  /\ Begin(p, IssueUnregister([Idle EXCEPT !.op = "unregister", !.id = id]))
  /\ UNCHANGED <<store, subs, apiGatewayManager, ttl, slots, endpoint1Bound, now>>

\* the DeleteCommand of lines 225-232 is answered
DeleteReturns(p) ==
  LET c == calls[p] IN
  /\ c.del = "inflight"
  /\ \/ LET d == Join([Logged(c, "delete:ok") EXCEPT !.del = "ok"], NoError) IN
          /\ store' = DeleteItem(store, c.id)
          /\ calls' = [calls EXCEPT ![p] = d]
          /\ removed' = Removal(p, d)
     \/ /\ store' = store
        /\ calls' = [calls EXCEPT ![p] =
                       Join([Logged(c, "delete:error") EXCEPT !.del = "error"], StorageError)]
        /\ removed' = removed
  /\ UNCHANGED <<subs, apiGatewayManager, ttl, slots, endpoint1Bound, now, started>>

\* unsubscribeAllByConnectionId of line 233 is answered
UnsubscribeReturns(p) ==
  LET c == calls[p] IN
  /\ c.unsub = "inflight"
  /\ \/ LET d == Join([Logged(c, "unsub:ok") EXCEPT !.unsub = "ok"], NoError) IN
          /\ subs' = subs \ {c.id}
          /\ calls' = [calls EXCEPT ![p] = d]
          /\ removed' = Removal(p, d)
     \/ /\ subs' = subs
        /\ calls' = [calls EXCEPT ![p] =
                       Join([Logged(c, "unsub:error") EXCEPT !.unsub = "error"],
                            SubscriptionError)]
        /\ removed' = removed
  /\ UNCHANGED <<store, apiGatewayManager, ttl, slots, endpoint1Bound, now, started>>

\* ------------------------------------------------------- sendToConnection
\* variant: line 215 testing only that the error carries a status code
IsGoneOnAnyStatus(e) == "statusCode" \in DOMAIN e

\* the test of line 215
IsGone(e) == "statusCode" \in DOMAIN e /\ e.statusCode = GONE_STATUS

\* variant: line 217 without its await, the cascade left to run on its own
SendCatchNotAwaiting(c, e) ==
  IF IsGone(e) THEN Fulfilled(IssueUnregister(c), {}) ELSE Rejected(c, e)

\* the catch block of lines 212-220
SendCatch(c, e) == IF IsGone(e) THEN IssueUnregister(c) ELSE Rejected(c, e)

\* lines 205-211 up to the await: the client is obtained inside the try block
SendToConnectionCall(p, id, endpoint) ==
  LET m == createApiGatewayManager(apiGatewayManager, endpoint, endpoint1Bound)
      c == [Idle EXCEPT !.op = "send", !.id = id, !.endpoint = endpoint] IN
  /\ Free(p)
  /\ apiGatewayManager' = m.cache
  /\ Begin(p, IF m.thrown # NoError THEN SendCatch(c, m.thrown)
              ELSE [c EXCEPT !.pc = "post", !.via = m.client,
                             !.log = IF m.created THEN <<"new", "post">> ELSE <<"post">>])
  /\ UNCHANGED <<store, subs, ttl, slots, endpoint1Bound, now>>

\* the PostToConnectionCommand is answered
PostReturns(p) ==
  LET c == calls[p] IN
  /\ c.op = "send" /\ c.pc = "post"
  /\ \/ calls' = [calls EXCEPT ![p] = Fulfilled(c, {})]
     \/ \E e \in TransportErrors :
          calls' = [calls EXCEPT ![p] = SendCatch([c EXCEPT !.answer = e], e)]
  /\ UNCHANGED <<store, subs, apiGatewayManager, ttl, slots, endpoint1Bound, now, started, removed>>

\* -------------------------------------------------------- closeConnection
\* variant: closeConnection with the catch block of sendToConnection
CloseFailureCleaningUp(c, e) == IF IsGone(e) THEN IssueUnregister(c) ELSE Rejected(c, e)

\* line 241 has no try around it: what the transport throws rejects the call
CloseFailure(c, e) == Rejected(c, e)

\* lines 237-245 up to the await
CloseConnectionCall(p, id, endpoint) ==
  LET m == createApiGatewayManager(apiGatewayManager, endpoint, endpoint1Bound)
      c == [Idle EXCEPT !.op = "close", !.id = id, !.endpoint = endpoint] IN
  /\ Free(p)
  /\ apiGatewayManager' = m.cache
  /\ Begin(p, IF m.thrown # NoError THEN CloseFailure(c, m.thrown)
              ELSE [c EXCEPT !.pc = "terminate", !.via = m.client,
                             !.log = IF m.created THEN <<"new", "terminate">>
                                     ELSE <<"terminate">>])
  /\ UNCHANGED <<store, subs, ttl, slots, endpoint1Bound, now>>

\* the DeleteConnectionCommand is answered
TerminateReturns(p) ==
  LET c == calls[p] IN
  /\ c.op = "close" /\ c.pc = "terminate"
  /\ \/ calls' = [calls EXCEPT ![p] = Fulfilled(c, {})]
     \/ \E e \in TransportErrors :
          calls' = [calls EXCEPT ![p] = CloseFailure([c EXCEPT !.answer = e], e)]
  /\ UNCHANGED <<store, subs, apiGatewayManager, ttl, slots, endpoint1Bound, now, started, removed>>

\* ------------------------------------------------------------ environment
Tick(t) ==
  /\ t > now
  /\ now' = t
  /\ UNCHANGED <<store, subs, apiGatewayManager, ttl, slots, endpoint1Bound, calls, started, removed>>

\* --------------------------------------------------------- specification
\* the constructor, lines 84-117, over its options
Init ==
  /\ store = << >>
  /\ subs = Ids
  /\ apiGatewayManager \in {NoClient, OverrideClient}
  /\ ttl \in {{}, {DEFAULT_TTL}}
  /\ endpoint1Bound \in IF apiGatewayManager = NoClient THEN BOOLEAN ELSE {FALSE}
  /\ now = 0
  /\ calls = [p \in Procs |-> Idle]
  /\ slots = 1
  /\ started = 0
  /\ removed = {}

Next ==
  \/ \E p \in Procs, id \in Ids, retryCount \in 0..MaxRetry : HydrateCall(p, id, retryCount)
  \/ \E p \in Procs : GetReturns(p)
  \/ \E p \in Procs : WaitElapses(p)
  \/ \E p \in Procs, data \in DataVals, id \in Ids : SetConnectionDataCall(p, data, id)
  \/ \E p \in Procs : UpdateReturns(p)
  \/ \E p \in Procs, event \in ConnectEvents : RegisterConnectionCall(p, event)
  \/ \E p \in Procs : PutReturns(p)
  \/ \E p \in Procs, id \in Ids, endpoint \in Endpoints : SendToConnectionCall(p, id, endpoint)
  \/ \E p \in Procs : PostReturns(p)
  \/ \E p \in Procs, id \in Ids : UnregisterConnectionCall(p, id)
  \/ \E p \in Procs : DeleteReturns(p)
  \/ \E p \in Procs : UnsubscribeReturns(p)
  \/ \E p \in Procs, id \in Ids, endpoint \in Endpoints : CloseConnectionCall(p, id, endpoint)
  \/ \E p \in Procs : TerminateReturns(p)
  \/ \E t \in Instants : Tick(t)

Spec == Init /\ [][Next]_vars

\* ------------------------------------------------- calls that overlap
\* the manager with two calls in flight at once: the handler of a connect event and
\* the handler of the connection's first message run as separate invocations
InitRace ==
  /\ store = << >>
  /\ subs = Ids
  /\ apiGatewayManager \in {NoClient, OverrideClient}
  /\ ttl \in {{}, {DEFAULT_TTL}}
  /\ endpoint1Bound \in IF apiGatewayManager = NoClient THEN BOOLEAN ELSE {FALSE}
  /\ now = 0
  /\ calls = [p \in Procs |-> Idle]
  /\ slots = 2
  /\ started = 0
  /\ removed = {}

NextRace ==
  \/ /\ started < MaxRaceCalls
     /\ \E p \in Procs, id \in Ids, retryCount \in 0..MaxRetry : HydrateCall(p, id, retryCount)
  \/ \E p \in Procs : GetReturns(p)
  \/ \E p \in Procs : WaitElapses(p)
  \/ /\ started < MaxRaceCalls
     /\ \E p \in Procs, event \in ConnectEvents : RegisterConnectionCall(p, event)
  \/ \E p \in Procs : PutReturns(p)
  \/ \E t \in Instants : Tick(t)

SpecRace == InitRace /\ [][NextRace]_vars

\* two invocations that send or close at once on one manager
NextFirstUse ==
  \/ /\ started < MaxRaceCalls
     /\ \E p \in Procs, id \in Ids, endpoint \in Endpoints : SendToConnectionCall(p, id, endpoint)
  \/ \E p \in Procs : PostReturns(p)
  \/ \E p \in Procs : DeleteReturns(p)
  \/ \E p \in Procs : UnsubscribeReturns(p)
  \/ /\ started < MaxRaceCalls
     /\ \E p \in Procs, id \in Ids, endpoint \in Endpoints : CloseConnectionCall(p, id, endpoint)
  \/ \E p \in Procs : TerminateReturns(p)

SpecFirstUse == InitRace /\ [][NextFirstUse]_vars

\* a manager constructed over a table in which earlier invocations have registered
\* some of the ids, on which removals are made and retried, a retry possibly while a
\* request of the failed call is still unanswered
InitRetry ==
  /\ apiGatewayManager \in {NoClient, OverrideClient}
  /\ ttl \in {{}, {DEFAULT_TTL}}
  /\ endpoint1Bound \in IF apiGatewayManager = NoClient THEN BOOLEAN ELSE {FALSE}
  /\ \E registered \in SUBSET Ids :
       store = [id \in registered |->
                  ConnectionItem(NewConnection([connectionId |-> id, endpoint |-> <<"h1">>,
                                                extra |-> {}]), ttl, 0)]
  /\ subs = Ids
  /\ now = 0
  /\ calls = [p \in Procs |-> Idle]
  /\ slots = 2
  /\ started = 0
  /\ removed = {}

NextRetry ==
  \/ /\ started < MaxUnregisters
     /\ \E p \in Procs, id \in Ids : UnregisterConnectionCall(p, id)
  \/ \E p \in Procs : DeleteReturns(p)
  \/ \E p \in Procs : UnsubscribeReturns(p)

SpecRetry == InitRetry /\ [][NextRetry]_vars

\* ================================================================ claims
Hydrates == {p \in Procs : calls[p].op = "hydrate"}
Sends == {p \in Procs : calls[p].op = "send"}
Done(p) == calls[p].pc = "done"

\* the reads a hydrateConnection call has issued: those answered, and the one pending
ReadsAnswered(c) == {k \in DOMAIN c.log : c.log[k] \in {"get:item", "get:absent", "get:error"}}
ReadsIssued(c) == Cardinality(ReadsAnswered(c)) + (IF c.pc = "get" THEN 1 ELSE 0)
NoRecordOnAnyRead(c) == \A k \in ReadsAnswered(c) : c.log[k] = "get:absent"

\* C1: a hydrateConnection with retryCount R never has more than R+1 reads issued, at
\* most one of them pending, and when every read found no record it ends having
\* made exactly R+1 reads and fails with ConnectionNotFoundError, returning nothing.
C1_ExactlyRPlus1Reads ==
  \A p \in Hydrates :
    LET c == calls[p] IN
    /\ ReadsIssued(c) <= c.retryCount + 1
    /\ (Done(p) /\ NoRecordOnAnyRead(c)) =>
         /\ ReadsIssued(c) = c.retryCount + 1
         /\ c.result = "error" /\ c.error = ConnectionNotFoundError /\ c.value = {}

C1_Witness ==
  \E p \in Hydrates :
    /\ Done(p) /\ NoRecordOnAnyRead(calls[p])
    /\ calls[p].retryCount = MaxRetry /\ ReadsIssued(calls[p]) = MaxRetry + 1
    /\ calls[p].error = ConnectionNotFoundError

\* the read of call p is answered with an item in this step
ReadYieldsItem(p) ==
  /\ calls[p].op = "hydrate" /\ calls[p].pc = "get"
  /\ calls'[p].log = Append(calls[p].log, "get:item")

\* C2: when a read of hydrateConnection yields a record whose ttl is strictly before
\* the current instant, the call fails at once with ConnectionNotFoundError and
\* returns nothing, on the first attempt too and however many retries remain.
C2_ExpiredRecordIsNotFound ==
  [][\A p \in Procs :
       (/\ ReadYieldsItem(p)
        /\ "ttl" \in DOMAIN store[calls[p].id]
        /\ store[calls[p].id].ttl < now)
       => /\ calls'[p].pc = "done"
          /\ calls'[p].result = "error"
          /\ calls'[p].error = ConnectionNotFoundError
          /\ calls'[p].value = {}]_vars

C2_Witness ==
  \E p \in Hydrates :
    /\ Done(p) /\ calls[p].retryCount > 0
    /\ calls[p].log = <<"get:item">>
    /\ calls[p].error = ConnectionNotFoundError
    /\ calls[p].id \in DOMAIN store /\ store[calls[p].id].ttl < now

\* the transport answered call p with the gone signal
AnsweredGone(c) == c.answer = GoneError

\* C3: a sendToConnection answered with the gone signal has issued the storage
\* delete once and invoked unsubscribeAllByConnectionId once; it completes normally
\* exactly when both have succeeded, never fails with the gone error, and the
\* delete, once answered, has left no record under the id.
C3_GoneCleansUp ==
  /\ [](\A p \in Sends :
          LET c == calls[p] IN
          AnsweredGone(c) =>
            /\ Count(c.log, "delete") = 1 /\ Count(c.log, "unsub") = 1
            /\ c.error # GoneError
            /\ Done(p) => (c.result = "ok" <=> (c.del = "ok" /\ c.unsub = "ok")))
  /\ [][\A p \in Procs :
          (calls[p].del = "inflight" /\ calls'[p].del = "ok")
          => calls[p].id \notin DOMAIN store']_vars

C3_Witness ==
  \E p \in Sends :
    /\ Done(p) /\ AnsweredGone(calls[p]) /\ calls[p].result = "ok"
    /\ calls[p].id \notin DOMAIN store /\ calls[p].id \notin subs

\* C4: a sendToConnection the transport fails with anything but the gone signal
\* fails with that very error and has issued neither the storage delete nor
\* unsubscribeAllByConnectionId.
C4_OtherErrorsPropagate ==
  \A p \in Sends :
    LET c == calls[p] IN
    (c.answer # NoError /\ c.answer # GoneError) =>
      /\ Done(p) /\ c.result = "error" /\ c.error = c.answer
      /\ c.del = "none" /\ c.unsub = "none"
      /\ Count(c.log, "delete") = 0 /\ Count(c.log, "unsub") = 0

C4_Witness ==
  \E p \in Sends :
    /\ Done(p) /\ calls[p].error \in TransportErrors \ {GoneError}
    /\ "statusCode" \in DOMAIN calls[p].error
    /\ calls[p].id \in DOMAIN store /\ calls[p].id \in subs

\* C5: a sendToConnection or closeConnection made on a manager with no override
\* client goes through a client created for the normalized endpoint of the
\* connection it was given.
C5_ClientOfOwnEndpoint ==
  \A p \in Procs :
    LET c == calls[p] IN
    (c.op \in {"send", "close"} /\ apiGatewayManager # OverrideClient) =>
      c.via = [kind |-> "created", endpoint |-> NormalizeEndpoint(c.endpoint)]

\* C6: an unregisterConnection (called directly, or by sendToConnection on the gone
\* signal) has not reported its outcome while its storage delete or its
\* unsubscribe-all is still unanswered.
C6_OutcomeAfterBoth ==
  \A p \in Procs :
    (calls[p].pc = "done" /\ Count(calls[p].log, "delete") = 1) =>
      (calls[p].del # "inflight" /\ calls[p].unsub # "inflight")

\* C7: an id whose unregisterConnection has succeeded, and for which no
\* registerConnection was called since, has no record in the store, and a
\* hydrateConnection of it that has ended has failed with ConnectionNotFoundError.
C7_RemovedIsTerminal ==
  \A id \in removed :
    /\ id \notin DOMAIN store
    /\ \A p \in Hydrates :
         (Done(p) /\ calls[p].id = id /\ slots = 1 /\ Count(calls[p].log, "get:error") = 0)
           => calls[p].error = ConnectionNotFoundError

\* the attribute of the item of a key, if the key has an item with it
Attribute(table, id, name) ==
  IF id \in DOMAIN table /\ name \in DOMAIN table[id] THEN {table[id][name]} ELSE {}

\* the UpdateCommand of call p is answered in this step
UpdateAnswered(p) ==
  calls[p].op = "setData" /\ calls[p].pc = "update" /\ calls'[p].pc = "done"

\* C8: the step in which setConnectionData's update is answered leaves the items of
\* all other ids as they were, leaves createdAt and ttl of the id's item as they
\* were, and on success has put newData, the call's only input besides the id, in
\* the data of an item that was stored.
C8_OnlyDataReplaced ==
  [][\A p \in Procs :
       UpdateAnswered(p) =>
         LET id == calls[p].id IN
         /\ \A k \in Ids \ {id} : GetItem(store', k) = GetItem(store, k)
         /\ Attribute(store', id, "createdAt") = Attribute(store, id, "createdAt")
         /\ Attribute(store', id, "ttl") = Attribute(store, id, "ttl")
         /\ (calls'[p].result = "ok" /\ id \in DOMAIN store) =>
              /\ Attribute(store', id, "data") = calls[p].data
              /\ DOMAIN store'[id] = DOMAIN store[id]
         /\ calls'[p].result = "error" => store' = store]_vars

C8_Witness ==
  \E p \in Procs :
    LET c == calls[p] IN
    /\ c.op = "setData" /\ Done(p) /\ c.result = "ok"
    /\ Attribute(store, c.id, "data") = c.data
    /\ Attribute(store, c.id, "createdAt") # {}
    /\ Attribute(store, c.id, "ttl") # {}
    /\ \E k \in Ids \ {c.id} : k \in DOMAIN store

\* C9: no step of a closeConnection call, whether the call is made or the transport
\* answers it with success or with an error, changes the store or the
\* subscriptions or issues a storage delete or an unsubscribe-all.
C9_CloseTouchesOnlyTransport ==
  [][\A p \in Procs :
       (calls'[p].op = "close" /\ calls'[p] # calls[p]) =>
         /\ store' = store /\ subs' = subs
         /\ calls'[p].del = "none" /\ calls'[p].unsub = "none"
         /\ \A k \in DOMAIN calls'[p].log : calls'[p].log[k] \in {"new", "terminate"}]_vars

C9_Witness ==
  \E p \in Procs :
    /\ calls[p].op = "close" /\ Done(p)
    /\ calls[p].error = GoneError
    /\ calls[p].id \in DOMAIN store /\ calls[p].id \in subs

\* the data registerConnection is to produce for an endpoint
FreshData(endpoint) == [endpoint |-> endpoint, context |-> {}, isInitialized |-> FALSE]

\* C10: the step in which registerConnection's write succeeds stores under the id
\* an item whose data is {endpoint of the event, context {}, isInitialized false},
\* and the call returns a connection with that id and that data.
C10_RegisteredDataIsFresh ==
  [][\A p \in Procs :
       (calls[p].op = "register" /\ calls[p].pc = "put" /\ calls'[p].result = "ok") =>
         LET id == calls[p].id IN
         /\ Attribute(store', id, "data") = {FreshData(calls[p].endpoint)}
         /\ calls'[p].value = {[id |-> id, data |-> FreshData(calls[p].endpoint)]}]_vars

C10_Witness ==
  \E p \in Procs :
    LET c == calls[p] IN
    /\ c.op = "register" /\ Done(p) /\ c.result = "ok"
    /\ c.log = <<"put">> /\ started > 2
    /\ Attribute(store, c.id, "data") = {FreshData(c.endpoint)}

\* the PutCommand of call p is answered with success in this step
PutSucceeds(p) ==
  calls[p].op = "register" /\ calls[p].pc = "put" /\ calls'[p].result = "ok"

\* C11: the step in which registerConnection's write succeeds leaves under the id
\* exactly the item the call built (createdAt, id, fresh data of its own endpoint,
\* and ttl only when ttl is on), with no attribute or value of an item the key held
\* before, and leaves the items of the other ids as they were.
C11_LastRegisterWins ==
  [][\A p \in Procs :
       PutSucceeds(p) =>
         LET id == calls[p].id IN
         /\ GetItem(store', id) = calls[p].item
         /\ \A item \in GetItem(store', id) :
              /\ item.id = id
              /\ item.data = FreshData(calls[p].endpoint)
              /\ DOMAIN item = {"createdAt", "id", "data"} \cup (IF ttl = {} THEN {} ELSE {"ttl"})
              /\ \A seconds \in ttl : item.ttl = item.createdAt + seconds
         /\ \A k \in Ids \ {id} : GetItem(store', k) = GetItem(store, k)]_vars

\* a registerConnection at a later instant has replaced the item its id already
\* held, and the key holds the item of this call
C11_Witness ==
  \E p \in Procs :
    LET c == calls[p] IN
    /\ c.op = "register" /\ Done(p) /\ c.result = "ok"
    /\ c.log = <<"put", "replaced">>
    /\ GetItem(store, c.id) = c.item
    /\ store[c.id].createdAt > 0
    /\ store[c.id].data.isInitialized = FALSE

\* C12: with an override client supplied at construction, every sendToConnection and
\* closeConnection call goes through that client, whatever its endpoint (none
\* constructs a client, none fails before its request is made), and no step puts
\* another client into this.apiGatewayManager.
C12_OverrideIsTheOnlyClient ==
  /\ [](apiGatewayManager = OverrideClient =>
          \A p \in Procs :
            calls[p].op \in {"send", "close"} =>
              /\ calls[p].via = OverrideClient
              /\ Count(calls[p].log, "new") = 0
              /\ Count(calls[p].log, "post") + Count(calls[p].log, "terminate") = 1)
  /\ [][apiGatewayManager = OverrideClient => apiGatewayManager' = OverrideClient]_vars

\* the third call of a manager with an override client, for an endpoint that carries
\* a scheme, has been answered through the override client
C12_Witness ==
  \E p \in Procs :
    /\ apiGatewayManager = OverrideClient
    /\ calls[p].op \in {"send", "close"} /\ Done(p)
    /\ calls[p].endpoint = <<"wss://", "h2">>
    /\ calls[p].via = OverrideClient
    /\ started = MaxCalls

\* C13: with no override client, every sendToConnection and closeConnection call,
\* the first included, makes its request through the client the manager caches: the
\* first use constructs that client and stores it, and of the calls in flight at
\* once at most one has constructed a client.
C13_OneClientFromFirstUse ==
  apiGatewayManager # OverrideClient =>
    \A p \in Procs :
      calls[p].op \in {"send", "close"} =>
        /\ calls[p].via # NoClient
        /\ calls[p].via = apiGatewayManager
        /\ Count(calls[p].log, "post") + Count(calls[p].log, "terminate") = 1
        /\ \A q \in Procs \ {p} :
             Count(calls[p].log, "new") + Count(calls[q].log, "new") <= 1

\* the time a call has spent in the waits of line 144, each of the default length
Waited(c) == Count(c.log, "wait") * DEFAULT_TIMEOUT

\* C14: a hydrateConnection call that has failed has waited at most retryCount
\* times the delay: at most retryCount waits, every wait followed by a read
\* attempt, and so no wait after the last read attempt.
C14_WaitsOnlyBetweenReads ==
  \A p \in Procs :
    LET c == calls[p] IN
    (p \in Hydrates /\ Done(p) /\ c.result = "error") =>
      /\ Waited(c) <= c.retryCount * DEFAULT_TIMEOUT
      /\ Count(c.log, "wait") <= c.retryCount
      /\ \A k \in 1..Len(c.log) :
           c.log[k] = "wait" => (k < Len(c.log) /\ c.log[k + 1] \in {"get:item", "get:absent", "get:error"})

\* C15: the connection registerConnection returns is the record it wrote, with the
\* same id, data, createdAt and ttl, which is what a hydrateConnection of the id
\* reads back.
C15_ReturnsTheWrittenRecord ==
  \A p \in Procs :
    (calls[p].op = "register" /\ Done(p) /\ calls[p].result = "ok") =>
      calls[p].value = calls[p].item

\* the item of id is one whose ttl is before the current instant
ElapsedIn(table, id) ==
  id \in DOMAIN table /\ "ttl" \in DOMAIN table[id] /\ table[id].ttl < now

\* C16: no step of a hydrateConnection call (its start, an answered read, an elapsed
\* wait, its failure) changes the store or the subscriptions, so a record whose ttl
\* has elapsed is still there after the call has failed on it; such a record leaves
\* the store only in the step of an answered delete on its id and gets another
\* createdAt or ttl only in the step of an answered registerConnection write on its
\* id; and a read that yields a record without ttl makes the call return it.
C16_ExpiryIsLazy ==
  [][/\ \A p \in Procs :
          (calls'[p].op = "hydrate" /\ calls'[p] # calls[p]) =>
            (store' = store /\ subs' = subs)
     /\ \A id \in Ids :
          ElapsedIn(store, id) =>
            /\ id \notin DOMAIN store' =>
                 \E p \in Procs :
                   calls[p].id = id /\ calls[p].del = "inflight" /\ calls'[p].del = "ok"
            /\ (\/ Attribute(store', id, "ttl") # Attribute(store, id, "ttl")
                \/ Attribute(store', id, "createdAt") # Attribute(store, id, "createdAt")) =>
                 \E p \in Procs :
                   \/ calls[p].id = id /\ calls[p].del = "inflight" /\ calls'[p].del = "ok"
                   \/ calls[p].id = id /\ PutSucceeds(p)
     /\ \A p \in Procs :
          (ReadYieldsItem(p) /\ "ttl" \notin DOMAIN store[calls[p].id]) =>
            /\ calls'[p].pc = "done" /\ calls'[p].result = "ok"
            /\ calls'[p].value = {store[calls[p].id]}]_vars

\* a hydrateConnection without retries has failed on a registered record whose ttl
\* has elapsed, and the record is in the store as registerConnection wrote it
C16_Witness ==
  \E p \in Hydrates :
    /\ Done(p) /\ calls[p].retryCount = 0
    /\ calls[p].log = <<"get:item">>
    /\ calls[p].error = ConnectionNotFoundError
    /\ ElapsedIn(store, calls[p].id)
    /\ "createdAt" \in DOMAIN store[calls[p].id]
    /\ store[calls[p].id].data.isInitialized = FALSE

\* call p has failed with the storage error and not otherwise
FailedOnStorage(p) ==
  Done(p) /\ calls[p].result = "error" /\ calls[p].error = StorageError /\ calls[p].value = {}

\* a storage error of the one storage request of registerConnection and of
\* setConnectionData ends the call with that error, and the request is not repeated
WriteErrorsPropagate ==
  \A p \in Procs :
    /\ Count(calls[p].log, "put:error") > 0 =>
         (FailedOnStorage(p) /\ calls[p].log = <<"put:error">>)
    /\ Count(calls[p].log, "update:error") > 0 =>
         (FailedOnStorage(p) /\ calls[p].log = <<"update:error">>)

\* C17: a storage error ends registerConnection, setConnectionData and
\* unregisterConnection with that error and no repeated request, while a storage
\* error of a read of hydrateConnection ends the call only when no attempt remains.
C17_HydrateAbsorbsStorageErrors ==
  /\ WriteErrorsPropagate
  /\ \A p \in Procs :
       (calls[p].op = "unregister" /\ calls[p].del = "error") =>
         (FailedOnStorage(p) /\ Count(calls[p].log, "delete") = 1)
  /\ \A p \in Hydrates :
       FailedOnStorage(p) => Cardinality(ReadsAnswered(calls[p])) = calls[p].retryCount + 1

\* C17, amended: a storage error ends the call with that error, and no request is
\* repeated, in registerConnection, in setConnectionData and in hydrateConnection
\* too, where the failed read is the call's last whatever attempts remain; in
\* unregisterConnection a failed delete makes the call fail, with the storage error
\* unless unsubscribeAllByConnectionId has failed before it, whose error is then
\* the one reported.
C17_StorageErrorsPropagate ==
  /\ WriteErrorsPropagate
  /\ \A p \in Procs :
       (calls[p].op = "unregister" /\ calls[p].del = "error") =>
         /\ Done(p) /\ calls[p].result = "error"
         /\ \/ calls[p].error = StorageError
            \/ calls[p].error = SubscriptionError /\ calls[p].unsub = "error"
         /\ Count(calls[p].log, "delete") = 1
  /\ \A p \in Hydrates :
       Count(calls[p].log, "get:error") > 0 =>
         /\ FailedOnStorage(p)
         /\ Count(calls[p].log, "get:error") = 1
         /\ calls[p].log[Len(calls[p].log)] = "get:error"

\* a hydrateConnection with retries has failed with the storage error of its first
\* read, the retries unused
C17_Witness ==
  \E p \in Hydrates :
    /\ FailedOnStorage(p)
    /\ calls[p].retryCount = MaxRetry
    /\ calls[p].log = <<"get:error">>

\* C18: with a registerConnection and a hydrateConnection in flight at once, a read
\* of hydrateConnection that is answered when the record of its id is in the store
\* and has not expired, the last of the retryCount + 1 reads included, makes the
\* call return that record in the same step; the call gives up with
\* ConnectionNotFoundError only after retryCount + 1 reads that found nothing or on
\* an expired record; and a call that has ended makes no further read or wait.
C18_RaceIsBridged ==
  /\ [][\A p \in Procs :
          (/\ calls[p].op = "hydrate" /\ calls[p].pc = "get" /\ calls'[p] # calls[p]
           /\ Count(calls'[p].log, "get:error") = 0
           /\ calls[p].id \in DOMAIN store
           /\ ~ElapsedIn(store, calls[p].id)) =>
            /\ calls'[p].pc = "done" /\ calls'[p].result = "ok"
            /\ calls'[p].value = {store[calls[p].id]}
            /\ calls'[p].log = Append(calls[p].log, "get:item")]_vars
  /\ [](\A p \in Hydrates :
          (Done(p) /\ calls[p].error = ConnectionNotFoundError) =>
            \/ /\ NoRecordOnAnyRead(calls[p])
               /\ Cardinality(ReadsAnswered(calls[p])) = calls[p].retryCount + 1
            \/ Count(calls[p].log, "get:item") = 1)
  /\ [][\A p \in Procs :
          (calls[p].pc = "done" /\ calls'[p] # calls[p]) => started' = started + 1]_vars

\* a hydrateConnection whose first read found nothing has returned, from its last
\* read, the record that a registerConnection in flight beside it wrote meanwhile
C18_Witness ==
  \E p \in Hydrates, q \in Procs :
    /\ Done(p) /\ calls[p].result = "ok"
    /\ calls[p].retryCount = 1
    /\ calls[p].log = <<"get:absent", "wait", "get:item">>
    /\ calls[q].op = "register" /\ Done(q) /\ calls[q].result = "ok"
    /\ calls[q].id = calls[p].id
    /\ calls[p].value = calls[q].item

\* C19: every unregisterConnection has issued its delete and its unsubscribe-all,
\* once each, whatever the other's fate; an answered delete removes the record and
\* an answered unsubscribe-all the subscriptions also after the call has failed on
\* the other one, each touching nothing else and changing nothing where the id is
\* already clean; and an unregisterConnection (a first one or a retry) whose two
\* sub-operations succeed has succeeded and leaves neither record nor subscriptions
\* of the id.
C19_RetryIsSafe ==
  /\ [](\A p \in Procs :
          calls[p].op = "unregister" =>
            /\ Count(calls[p].log, "delete") = 1 /\ Count(calls[p].log, "unsub") = 1
            /\ calls[p].del # "none" /\ calls[p].unsub # "none"
            /\ (calls[p].del = "ok" /\ calls[p].unsub = "ok") =>
                 /\ calls[p].pc = "done" /\ calls[p].result = "ok"
                 /\ calls[p].id \notin DOMAIN store /\ calls[p].id \notin subs
            /\ calls[p].result = "ok" => (calls[p].del = "ok" /\ calls[p].unsub = "ok"))
  /\ [][\A p \in Procs :
          calls[p].op = "unregister" =>
            /\ (calls[p].del = "inflight" /\ calls'[p].del = "ok") =>
                 /\ DOMAIN store' = DOMAIN store \ {calls[p].id}
                 /\ \A k \in DOMAIN store' : store'[k] = store[k]
                 /\ subs' = subs
            /\ (calls[p].unsub = "inflight" /\ calls'[p].unsub = "ok") =>
                 /\ subs' = subs \ {calls[p].id}
                 /\ store' = store]_vars

\* an unregisterConnection has failed on its unsubscribe-all while its delete went
\* through, and the retry made on the failure has succeeded: neither record nor
\* subscriptions of the id are left
C19_Witness ==
  \E p \in Procs, q \in Procs :
    /\ calls[p].op = "unregister" /\ Done(p) /\ calls[p].result = "error"
    /\ calls[p].error = SubscriptionError
    /\ calls[p].log = <<"delete", "unsub", "unsub:error", "delete:ok">>
    /\ calls[q].op = "unregister" /\ Done(q) /\ calls[q].result = "ok"
    /\ calls[q].id = calls[p].id
    /\ calls[q].del = "ok" /\ calls[q].unsub = "ok"
    /\ calls[p].id \notin DOMAIN store /\ calls[p].id \notin subs
    /\ calls[p].id \in removed

\* C20: a sendToConnection whose transport answered gone and whose cascade has failed
\* in the delete or in the unsubscribe-all has failed, with the error of a
\* sub-operation that failed and never with the gone error; and one that has
\* reported success has neither the record nor the subscriptions of its connection
\* left behind.
C20_FailedCascadeIsReported ==
  \A p \in Procs :
    LET c == calls[p] IN
    (c.op = "send" /\ c.answer = GoneError) =>
      /\ (c.del = "error" \/ c.unsub = "error") =>
           /\ c.pc = "done" /\ c.result = "error"
           /\ c.error \in {StorageError, SubscriptionError}
           /\ c.error # c.answer
           /\ c.error = StorageError => c.del = "error"
           /\ c.error = SubscriptionError => c.unsub = "error"
      /\ c.result = "ok" =>
           (c.id \notin DOMAIN store /\ c.id \notin subs)

\* a sendToConnection answered gone has failed with the storage error of its
\* cascade's delete, the registered record still in the store and the subscriptions
\* removed
C20_Witness ==
  \E p \in Procs :
    LET c == calls[p] IN
    /\ c.op = "send" /\ c.answer = GoneError
    /\ c.pc = "done" /\ c.result = "error" /\ c.error = StorageError
    /\ c.del = "error" /\ c.unsub = "ok"
    /\ c.id \in DOMAIN store /\ "createdAt" \in DOMAIN store[c.id]
    /\ c.id \notin subs

====
